---- MODULE Spec2Model ----
(***************************************************************************)
(* Interaction logic of the sweeten widgets: the PickList controller       *)
(* (src/widget/pick_list.rs) together with the option list of its overlay  *)
(* menu (src/widget/overlay/menu.rs), and the MouseArea container          *)
(* (src/widget/mouse_area.rs).                                             *)
(*                                                                         *)
(* Indices are 0-based as in the source; options[i + 1] is the source's    *)
(* options[i].  Option<usize>::None is the index None == -1, and an absent *)
(* selection is the value NoSel.                                           *)
(***************************************************************************)
EXTENDS Integers, Sequences, FiniteSets, TLC

\* ------------------------------------------------------------------ bounds

\* Longest option list enumerated for the open/close state machine.
MaxOptions == 2

\* Longest option list enumerated for modifier-scroll selection.
MaxScrollOptions == 4

\* Longest option list enumerated for the overlay list with a hover handler.
MaxMenuOptions == 3

\* Largest cursor coordinate delivered to a MouseArea; its bounds start at a
\* smaller coordinate.
MaxCoord == 2

\* Largest distance, in cursor units, of a queried offset from the top of the
\* list, and largest viewport height.
MaxOffset == 4

\* Largest row height and longest list a query of the list is evaluated for.
MaxRowHeight == 2

MaxRows == 3

\* Height of one option row in the overlay list, in cursor units.
OptionHeight == 2

\* The option values offered, in the order lists introduce them; "Z" is a
\* value that is never offered.
ValueSeq == << "A", "B", "C", "D" >>

Values == {ValueSeq[i] : i \in 1 .. Len(ValueSeq)}

NoSel == "None"

None == -1

\* Outcomes of the skip-disabled scan that are not an index.
Hang == -2

Panic == -3

VARIABLES
    options,            \* PickList.options: the option list
    disabled,           \* PickList.disabled applied to options: [present, mask]
    selected,           \* PickList.selected
    on_open,            \* PickList.on_open is Some
    on_close,           \* PickList.on_close is Some
    on_option_hovered,  \* Menu.on_option_hovered is Some
    is_open,            \* State.is_open
    hovered_option,     \* State.hovered_option
    keyboard_modifiers, \* State.keyboard_modifiers.command()
    overlay,            \* what PickList::overlay returned last: "Some" or "None"
    menu,               \* State.menu: the widget tree of the overlay's content
    cursor,             \* where the pointer is: [place, y]
    handlers,           \* the MouseArea fields on_* that are Some
    state,              \* mouse_area::State
    event,              \* the event delivered last
    shell,              \* the messages published while handling it, in order
    status,             \* the event::Status returned for it
    pre,                \* State as it was when the event arrived
    query               \* the last evaluation of a function of the option list

vars ==
    << options, disabled, selected, on_open, on_close, on_option_hovered,
       is_open, hovered_option, keyboard_modifiers, overlay, menu, cursor,
       handlers, state, event, shell, status, pre, query >>

config == << options, disabled, on_open, on_close, on_option_hovered >>

\* The variables of a PickList and of a MouseArea.
pick_list == << config, selected, is_open, hovered_option, keyboard_modifiers,
                overlay, menu, cursor >>

mouse_area == << handlers, state >>

\* ---------------------------------------------------------------- messages

Select(v) == [type |-> "select", value |-> v]

OnOpen == [type |-> "open", value |-> "-"]

OnClose == [type |-> "close", value |-> "-"]

\* on_option_hovered(option) of the overlay list.
Hover(v) == [type |-> "hover", value |-> v]

\* ------------------------------------------------------------------ events

Event(kind, dy, command) == [kind |-> kind, dy |-> dy, command |-> command]

NoEvent == Event("none", 0, FALSE)

IsPress(e) == e.kind \in {"ButtonPressed", "FingerPressed"}

\* cursor.is_over(layout.bounds()) for the PickList's own layout.
OverBounds(c) == c.place = "bounds"

\* cursor.position_in(layout.bounds()) for the overlay list: Some(y) or None.
PositionInList(c) == IF c.place = "list" THEN c.y ELSE None

\* The places a pointer can be: over the widget, over a point of the overlay
\* list (only while the overlay is shown), or elsewhere.
Places(open) ==
    {[place |-> "bounds", y |-> 0], [place |-> "outside", y |-> 0]}
        \cup (IF open
              THEN {[place |-> "list", y |-> y] :
                        y \in 0 .. (Len(options) * OptionHeight - 1)}
              ELSE {})

\* ------------------------------------------------------- option list (menu)

\* `value as usize`: truncation towards zero, saturating at 0.
AsUsize(num, den) == IF num < 0 THEN 0 ELSE num \div den

\* Faulty variant of IndexAt for C24: the last row also answers for offsets
\* below it.
IndexAtClamped(y, option_height, len) ==
    LET index == AsUsize(y, option_height)
    IN  IF index < len THEN index ELSE len - 1

\* option_index_at for a row height and an option count.
IndexAt(y, option_height, len) ==
    LET index == AsUsize(y, option_height)
    IN  IF index < len THEN index ELSE None

OptionIndexAt(y) == IndexAt(y, OptionHeight, Len(options))

\* `value.ceil() as usize`.
CeilAsUsize(num, den) == IF num <= 0 THEN 0 ELSE (num + den - 1) \div den

\* The rows List::draw slices, &self.options[start..end.min(len)], for a
\* viewport that starts offset below the top of the list: slicing panics when
\* start is beyond the end.
VisibleOptions(offset, height, option_height, len) ==
    LET start == AsUsize(offset, option_height)
        end == CeilAsUsize(offset + height, option_height)
        stop == IF end < len THEN end ELSE len
    IN  IF start > stop
        THEN [start |-> Panic, end |-> Panic]
        ELSE [start |-> start, end |-> stop]

IsDisabled(index) ==
    /\ disabled.present
    /\ index < Len(disabled.mask)
    /\ disabled.mask[index + 1]

\* The result of a handler: the State fields it leaves, what it published and
\* the status it returned.
Result(open, hovered, mods, msgs, st) ==
    [is_open |-> open, hovered_option |-> hovered, keyboard_modifiers |-> mods,
     shell |-> msgs, status |-> st]

Unhandled == Result(is_open, hovered_option, keyboard_modifiers, << >>, "Ignored")

\* on_selected as PickList::overlay builds it: closes, then maps the option.
OnSelected(hovered, option) ==
    Result(FALSE, hovered, keyboard_modifiers, << Select(option) >>, "Captured")

\* Faulty variant of ListButtonPressed for C2: the row index is off by one.
ListButtonPressedBelow(c) ==
    LET clicked_index == OptionIndexAt(PositionInList(c))
    IN  IF PositionInList(c) = None \/ clicked_index = None
        THEN Unhandled
        ELSE IF ~IsDisabled(clicked_index)
             THEN OnSelected(hovered_option,
                             options[IF clicked_index + 2 <= Len(options)
                                     THEN clicked_index + 2
                                     ELSE clicked_index + 1])
             ELSE [Unhandled EXCEPT !.status = "Captured"]

ListButtonPressed(c) ==
    LET clicked_index == OptionIndexAt(PositionInList(c))
    IN  IF PositionInList(c) = None \/ clicked_index = None
        THEN Unhandled
        ELSE IF ~IsDisabled(clicked_index)
             THEN OnSelected(hovered_option, options[clicked_index + 1])
             ELSE [Unhandled EXCEPT !.status = "Captured"]

\* Faulty variant of ListCursorMoved for C13: the stored hover is not compared
\* before on_option_hovered is published.
ListCursorMovedAlways(c) ==
    LET new_hovered_option == OptionIndexAt(PositionInList(c))
    IN  IF PositionInList(c) = None \/ new_hovered_option = None
        THEN Unhandled
        ELSE IF ~IsDisabled(new_hovered_option)
             THEN [Unhandled EXCEPT
                       !.shell = IF on_option_hovered
                                 THEN << Hover(options[new_hovered_option + 1]) >>
                                 ELSE << >>,
                       !.hovered_option = new_hovered_option,
                       !.status = "Captured"]
             ELSE [Unhandled EXCEPT !.status = "Captured"]

\* Faulty variant of ListCursorMoved for C14: a disabled row clears the hover.
ListCursorMovedUnsets(c) ==
    LET new_hovered_option == OptionIndexAt(PositionInList(c))
    IN  IF PositionInList(c) = None \/ new_hovered_option = None
        THEN Unhandled
        ELSE IF ~IsDisabled(new_hovered_option)
             THEN [Unhandled EXCEPT
                       !.shell = IF /\ on_option_hovered
                                    /\ hovered_option # new_hovered_option
                                 THEN << Hover(options[new_hovered_option + 1]) >>
                                 ELSE << >>,
                       !.hovered_option = new_hovered_option,
                       !.status = "Captured"]
             ELSE [Unhandled EXCEPT !.hovered_option = None,
                                    !.status = "Captured"]

ListCursorMoved(c) ==
    LET new_hovered_option == OptionIndexAt(PositionInList(c))
    IN  IF PositionInList(c) = None \/ new_hovered_option = None
        THEN Unhandled
        ELSE IF ~IsDisabled(new_hovered_option)
             THEN [Unhandled EXCEPT
                       !.shell = IF /\ on_option_hovered
                                    /\ hovered_option # new_hovered_option
                                 THEN << Hover(options[new_hovered_option + 1]) >>
                                 ELSE << >>,
                       !.hovered_option = new_hovered_option,
                       !.status = "Captured"]
             ELSE [Unhandled EXCEPT !.status = "Captured"]

\* Faulty variant of ListFingerPressed for C4: stores the hover before the
\* disabled check.
ListFingerPressedHoverFirst(c) ==
    LET new_hovered_option == OptionIndexAt(PositionInList(c))
    IN  IF PositionInList(c) = None \/ new_hovered_option = None
        THEN Unhandled
        ELSE IF ~IsDisabled(new_hovered_option)
             THEN OnSelected(new_hovered_option, options[new_hovered_option + 1])
             ELSE [Unhandled EXCEPT !.hovered_option = new_hovered_option,
                                    !.status = "Captured"]

ListFingerPressed(c) ==
    LET new_hovered_option == OptionIndexAt(PositionInList(c))
    IN  IF PositionInList(c) = None \/ new_hovered_option = None
        THEN Unhandled
        ELSE IF ~IsDisabled(new_hovered_option)
             THEN OnSelected(new_hovered_option, options[new_hovered_option + 1])
             ELSE [Unhandled EXCEPT !.status = "Captured"]

ListOnEvent(e, c) ==
    CASE e.kind = "ButtonPressed" -> ListButtonPressed(c)
      [] e.kind = "CursorMoved" -> ListCursorMoved(c)
      [] e.kind = "FingerPressed" -> ListFingerPressed(c)
      [] OTHER -> Unhandled

\* No evaluation yet.
NoQuery == [option_height |-> 0, len |-> 0, offset |-> 0, height |-> 0,
            start |-> None, end |-> None, name |-> "none"]

\* option_index_at evaluated for an offset, a row height and an option count.
QueryOptionIndexAt ==
    \E y \in (0 - MaxOffset) .. MaxOffset, option_height \in 1 .. MaxRowHeight,
       len \in 0 .. MaxRows :
        /\ query' = [NoQuery EXCEPT
                         !.name = "option_index_at",
                         !.offset = y,
                         !.option_height = option_height,
                         !.len = len,
                         !.start = IndexAt(y, option_height, len)]
        /\ UNCHANGED << pick_list, mouse_area, event, shell, status, pre >>

\* The slice List::draw takes for a viewport, a row height and an option
\* count.
QueryDraw ==
    \E offset \in (0 - MaxOffset) .. MaxOffset, height \in 0 .. MaxOffset,
       option_height \in 1 .. MaxRowHeight, len \in 0 .. MaxRows :
        LET visible_options == VisibleOptions(offset, height, option_height, len)
        IN  /\ query' = [NoQuery EXCEPT
                             !.name = "draw",
                             !.offset = offset,
                             !.height = height,
                             !.option_height = option_height,
                             !.len = len,
                             !.start = visible_options.start,
                             !.end = visible_options.end]
            /\ UNCHANGED << pick_list, mouse_area, event, shell, status, pre >>

\* ------------------------------------------------------ PickList::on_event

\* options.iter().position(|option| option == v), None when v is not offered.
Position(v) ==
    IF \E i \in 1 .. Len(options) : options[i] = v
    THEN (CHOOSE i \in 1 .. Len(options) :
              /\ options[i] = v
              /\ \A j \in 1 .. (i - 1) : options[j] # v) - 1
    ELSE None

\* options.iter().rev().position(...) expressed as an index of the list.
LastPosition(v) ==
    IF \E i \in 1 .. Len(options) : options[i] = v
    THEN (CHOOSE i \in 1 .. Len(options) :
              /\ options[i] = v
              /\ \A j \in (i + 1) .. Len(options) : options[j] # v) - 1
    ELSE None

\* Faulty variant of PressWhileOpen for C16: closing clears the hover.
PressWhileOpenClears ==
    IF /\ hovered_option # None
       /\ disabled.present
       /\ hovered_option < Len(disabled.mask)
       /\ disabled.mask[hovered_option + 1]
    THEN [Unhandled EXCEPT !.status = "Captured"]
    ELSE Result(FALSE, None, keyboard_modifiers,
                IF on_close THEN << OnClose >> ELSE << >>, "Captured")

PressWhileOpen ==
    IF /\ hovered_option # None
       /\ disabled.present
       /\ hovered_option < Len(disabled.mask)
       /\ disabled.mask[hovered_option + 1]
    THEN [Unhandled EXCEPT !.status = "Captured"]
    ELSE Result(FALSE, hovered_option, keyboard_modifiers,
                IF on_close THEN << OnClose >> ELSE << >>, "Captured")

\* Faulty variant of PressWhileClosed for C1: hovers the last option equal
\* to the selection (rposition for position).
PressWhileClosedLast(c) ==
    IF OverBounds(c)
    THEN Result(TRUE,
                IF selected = NoSel THEN None ELSE LastPosition(selected),
                keyboard_modifiers,
                IF on_open THEN << OnOpen >> ELSE << >>, "Captured")
    ELSE Unhandled

\* Faulty variant of PressWhileClosed for C15: the hover is stored 1-based.
PressWhileClosedOneBased(c) ==
    IF OverBounds(c)
    THEN Result(TRUE,
                IF selected = NoSel \/ Position(selected) = None
                THEN None
                ELSE Position(selected) + 1,
                keyboard_modifiers,
                IF on_open THEN << OnOpen >> ELSE << >>, "Captured")
    ELSE Unhandled

\* Faulty variant of PressWhileClosed for C33: the press opens wherever the
\* cursor is.
PressWhileClosedAnywhere(c) ==
    Result(TRUE,
           IF selected = NoSel THEN None ELSE Position(selected),
           keyboard_modifiers,
           IF on_open THEN << OnOpen >> ELSE << >>, "Captured")

PressWhileClosed(c) ==
    IF OverBounds(c)
    THEN Result(TRUE,
                IF selected = NoSel THEN None ELSE Position(selected),
                keyboard_modifiers,
                IF on_open THEN << OnOpen >> ELSE << >>, "Captured")
    ELSE Unhandled

\* The mask the scroll handler indexes: the caller's, or all false.
DisabledVec ==
    IF disabled.present
    THEN disabled.mask
    ELSE [i \in 1 .. Len(options) |-> FALSE]

\* Faulty variant of FindNext for C8: a value that is not found restarts the
\* scan at the first element in iteration order.
FindNextOrFirst(v, forward) ==
    IF forward
    THEN LET p == Position(v)
         IN  IF p = None
             THEN (IF Len(options) = 0 THEN None ELSE 0)
             ELSE IF p + 1 >= Len(options) THEN None ELSE p + 1
    ELSE LET p == LastPosition(v)
         IN  IF p = None
             THEN Len(options) - 1
             ELSE IF p = 0 THEN None ELSE p - 1

\* find_next(v, options.iter()) and find_next(v, options.iter().rev()): the
\* index of the element that follows the first match in iteration order.
FindNext(v, forward) ==
    IF forward
    THEN LET p == Position(v)
         IN  IF p = None \/ p + 1 >= Len(options) THEN None ELSE p + 1
    ELSE LET p == LastPosition(v)
         IN  IF p = None \/ p = 0 THEN None ELSE p - 1

\* The `while let Some(option) = next` loop.  seen holds the values next has
\* had; the loop is deterministic in next, so a repeat never ends.
RECURSIVE SkipDisabled(_, _, _)
SkipDisabled(next, forward, seen) ==
    IF next = None
    THEN None
    ELSE LET pos == Position(options[next + 1])
         IN  IF pos >= Len(DisabledVec)
             THEN Panic
             ELSE IF ~DisabledVec[pos + 1]
                  THEN next
                  ELSE LET n2 == FindNext(options[next + 1], forward)
                       IN  IF n2 \in seen
                           THEN Hang
                           ELSE SkipDisabled(n2, forward, seen \cup {n2})

\* Faulty variant of FindEnabled for C9: the mask is not consulted.
FindEnabledAny(forward) ==
    IF Len(options) = 0
    THEN None
    ELSE IF forward THEN 0 ELSE Len(options) - 1

\* options.iter().enumerate()[.rev()].find(|(i, _)| !disabled[*i]): indexing
\* past the end of the mask panics.
FindEnabled(forward) ==
    LET stops == {i \in 0 .. (Len(options) - 1) :
                      i >= Len(DisabledVec) \/ ~DisabledVec[i + 1]}
        hit == IF forward
               THEN CHOOSE i \in stops : \A j \in stops : i <= j
               ELSE CHOOSE i \in stops : \A j \in stops : i >= j
    IN  IF stops = {}
        THEN None
        ELSE IF hit >= Len(DisabledVec) THEN Panic ELSE hit

\* Faulty variant of NextOption for C6: the sign of y is read the wrong way
\* round.
NextOptionReversed(dy) ==
    IF dy > 0
    THEN IF selected # NoSel
         THEN LET first == FindNext(selected, TRUE)
              IN  SkipDisabled(first, TRUE, {first})
         ELSE FindEnabled(TRUE)
    ELSE IF dy < 0
         THEN IF selected # NoSel
              THEN LET first == FindNext(selected, FALSE)
                   IN  SkipDisabled(first, FALSE, {first})
              ELSE FindEnabled(FALSE)
         ELSE None

\* next_option of the WheelScrolled arm, as an index.
NextOption(dy) ==
    IF dy < 0
    THEN IF selected # NoSel
         THEN LET first == FindNext(selected, TRUE)
              IN  SkipDisabled(first, TRUE, {first})
         ELSE FindEnabled(TRUE)
    ELSE IF dy > 0
         THEN IF selected # NoSel
              THEN LET first == FindNext(selected, FALSE)
                   IN  SkipDisabled(first, FALSE, {first})
              ELSE FindEnabled(FALSE)
         ELSE None

\* Faulty variant of WheelScrolled for C11: the open flag is not consulted.
WheelScrolledWhileOpen(dy, c) ==
    IF keyboard_modifiers /\ OverBounds(c)
    THEN LET next_option == NextOption(dy)
         IN  CASE next_option = Hang -> [Unhandled EXCEPT !.status = "Hang"]
               [] next_option = Panic -> [Unhandled EXCEPT !.status = "Panic"]
               [] next_option = None -> [Unhandled EXCEPT !.status = "Captured"]
               [] OTHER ->
                    [Unhandled EXCEPT !.shell = << Select(options[next_option + 1]) >>,
                                      !.status = "Captured"]
    ELSE Unhandled

WheelScrolled(dy, c) ==
    IF keyboard_modifiers /\ OverBounds(c) /\ ~is_open
    THEN LET next_option == NextOption(dy)
         IN  CASE next_option = Hang -> [Unhandled EXCEPT !.status = "Hang"]
               [] next_option = Panic -> [Unhandled EXCEPT !.status = "Panic"]
               [] next_option = None -> [Unhandled EXCEPT !.status = "Captured"]
               [] OTHER ->
                    [Unhandled EXCEPT !.shell = << Select(options[next_option + 1]) >>,
                                      !.status = "Captured"]
    ELSE Unhandled

\* Faulty variant of ModifiersChanged for C12: the notification is captured.
ModifiersChangedCaptured(command) ==
    [Unhandled EXCEPT !.keyboard_modifiers = command, !.status = "Captured"]

ModifiersChanged(command) ==
    [Unhandled EXCEPT !.keyboard_modifiers = command]

PickListOnEvent(e, c) ==
    CASE IsPress(e) -> IF is_open THEN PressWhileOpen ELSE PressWhileClosed(c)
      [] e.kind = "WheelScrolled" -> WheelScrolled(e.dy, c)
      [] e.kind = "ModifiersChanged" -> ModifiersChanged(e.command)
      [] OTHER -> Unhandled

\* ----------------------------------------------------------------- dispatch

\* Faulty variant of MenuTree for C27: the tree is dropped when no overlay is
\* built.
MenuTreeDropped(tree, open) == IF open THEN "Scrollable" ELSE "Empty"

\* State.menu after PickList::overlay: Overlay::new diffs the tree against
\* the scrollable list when the menu is built; nothing else assigns it.
MenuTree(tree, open) == IF open THEN "Scrollable" ELSE tree

\* Faulty variant of Overlay for C17: a menu is returned in every state.
OverlayAlways(open) == "Some"

\* PickList::overlay: Some(menu) when state.is_open, None otherwise.
Overlay(open) == IF open THEN "Some" ELSE "None"

\* The overlay, when there is one, sees the event first; the widget handles it
\* only when the overlay did not capture it.
Dispatch(e, c) ==
    IF overlay = "Some"
    THEN LET fromOverlay == ListOnEvent(e, c)
         IN  IF fromOverlay.status = "Captured"
             THEN fromOverlay
             ELSE PickListOnEvent(e, c)
    ELSE PickListOnEvent(e, c)

Running == status \in {"Ignored", "Captured"}

Deliver(e, c) ==
    LET r == Dispatch(e, c)
    IN  /\ Running
        /\ is_open' = r.is_open
        /\ hovered_option' = r.hovered_option
        /\ keyboard_modifiers' = r.keyboard_modifiers
        /\ overlay' = Overlay(r.is_open)
        /\ menu' = MenuTree(menu, r.is_open)
        /\ shell' = r.shell
        /\ status' = r.status
        /\ event' = e
        /\ cursor' = c
        /\ pre' = [is_open |-> is_open, hovered_option |-> hovered_option,
                   keyboard_modifiers |-> keyboard_modifiers]
        /\ UNCHANGED << config, selected, mouse_area, query >>

\* ------------------------------------------------------------------ actions

CursorMoved == \E c \in Places(is_open) : Deliver(Event("CursorMoved", 0, FALSE), c)

ButtonPressed == Deliver(Event("ButtonPressed", 0, FALSE), cursor)

FingerPressed == \E c \in Places(is_open) : Deliver(Event("FingerPressed", 0, FALSE), c)

Scroll == \E dy \in {-1, 0, 1} : Deliver(Event("WheelScrolled", dy, FALSE), cursor)

Modifiers == \E m \in BOOLEAN : Deliver(Event("ModifiersChanged", 0, m), cursor)

\* The selections a caller can pass: an offered value, a value that is not
\* offered, or none.
Selections == {options[i] : i \in 1 .. Len(options)} \cup {"Z", NoSel}

\* The application rebuilds the widget with another selection.
View ==
    /\ Running
    /\ selected' \in Selections \ {selected}
    /\ event' = NoEvent
    /\ shell' = << >>
    /\ status' = "Ignored"
    /\ pre' = [is_open |-> is_open, hovered_option |-> hovered_option,
               keyboard_modifiers |-> keyboard_modifiers]
    /\ overlay' = Overlay(is_open)
    /\ menu' = MenuTree(menu, is_open)
    /\ UNCHANGED << config, is_open, hovered_option, keyboard_modifiers, cursor,
                    mouse_area, query >>

\* An event that is not the first of its batch: the runtime asked for the
\* overlay once, before the batch, and the same overlay sees every event of
\* the batch, whatever the events before it did to is_open.
DeliverBatched(e, c) ==
    LET r == Dispatch(e, c)
    IN  /\ Running
        /\ is_open' = r.is_open
        /\ hovered_option' = r.hovered_option
        /\ keyboard_modifiers' = r.keyboard_modifiers
        /\ shell' = r.shell
        /\ status' = r.status
        /\ event' = e
        /\ cursor' = c
        /\ pre' = [is_open |-> is_open, hovered_option |-> hovered_option,
                   keyboard_modifiers |-> keyboard_modifiers]
        /\ UNCHANGED << config, selected, overlay, menu, mouse_area, query >>

CursorMovedBatched ==
    \E c \in Places(overlay = "Some") :
        DeliverBatched(Event("CursorMoved", 0, FALSE), c)

ButtonPressedBatched == DeliverBatched(Event("ButtonPressed", 0, FALSE), cursor)

FingerPressedBatched ==
    \E c \in Places(overlay = "Some") :
        DeliverBatched(Event("FingerPressed", 0, FALSE), c)

\* The batch is over: the runtime asks PickList::overlay again.
Build ==
    /\ Running
    /\ overlay' = Overlay(is_open)
    /\ menu' = MenuTree(menu, is_open)
    /\ event' = NoEvent
    /\ shell' = << >>
    /\ status' = "Ignored"
    /\ pre' = [is_open |-> is_open, hovered_option |-> hovered_option,
               keyboard_modifiers |-> keyboard_modifiers]
    /\ UNCHANGED << config, selected, is_open, hovered_option,
                    keyboard_modifiers, cursor, mouse_area, query >>

\* ---------------------------------------------------------------- MouseArea

\* The messages of a MouseArea; position is None where a message carries none.
OnPress(position) == [type |-> "press", position |-> position]

OnRelease == [type |-> "release", position |-> None]

OnDoubleClick == [type |-> "double_click", position |-> None]

OnRightPress == [type |-> "right_press", position |-> None]

OnRightRelease == [type |-> "right_release", position |-> None]

OnMiddlePress == [type |-> "middle_press", position |-> None]

OnMiddleRelease == [type |-> "middle_release", position |-> None]

OnScroll == [type |-> "scroll", position |-> None]

OnEnter == [type |-> "enter", position |-> None]

OnMove(position) == [type |-> "move", position |-> position]

OnExit == [type |-> "exit", position |-> None]

\* A Rectangle along one axis: the points x <= p < x + width.
Rectangle(x, width) == [x |-> x, width |-> width]

\* Option<mouse::Click>::None.
NoClick == [kind |-> "None", position |-> None]

\* State::default().
StateDefault ==
    [is_hovered |-> FALSE, bounds |-> Rectangle(0, 0), cursor_position |-> None,
     previous_click |-> NoClick]

\* An event as MouseArea::on_event receives it: with the cursor position (None
\* when unavailable), the layout bounds, the status its content returned, and
\* whether it comes within the double-click interval of the previous click.
MouseEvent(kind, button, position, bounds, content, quick) ==
    [cursor |-> position, kind |-> kind, bounds |-> bounds, button |-> button,
     content |-> content, quick |-> quick]

NoMouseEvent == MouseEvent("none", "-", None, Rectangle(0, 0), "Ignored", FALSE)

\* cursor.is_over(bounds).
IsOver(position, bounds) ==
    /\ position # None
    /\ bounds.x <= position
    /\ position < bounds.x + bounds.width

\* cursor.position_in(bounds): the position relative to the bounds, or None.
PositionIn(position, bounds) ==
    IF IsOver(position, bounds) THEN position - bounds.x ELSE None

\* The kind of a press that is consecutive to a press of this kind: presses
\* pair up, so a press consecutive to a double click is a single click again.
\* (The classifier is the host toolkit's mouse::Click.)
KindNext(kind) == IF kind = "Single" THEN "Double" ELSE "Single"

\* mouse::Click::new(position, mouse::Button::Left, previous): consecutive to
\* the previous click when at its position and within the interval.
ClickNew(position, previous, quick) ==
    [kind |-> IF previous # NoClick /\ previous.position = position /\ quick
              THEN KindNext(previous.kind)
              ELSE "Single",
     position |-> position]

\* Faulty variant of Hovering for C18: the move arm is tried before the enter
\* arm.
HoveringMoveFirst(was_hovered, is_hovered, position) ==
    IF "on_move" \in handlers /\ is_hovered
    THEN IF position # None THEN << OnMove(position) >> ELSE << >>
    ELSE IF "on_enter" \in handlers /\ is_hovered /\ ~was_hovered
         THEN << OnEnter >>
         ELSE IF "on_exit" \in handlers /\ ~is_hovered /\ was_hovered
              THEN << OnExit >>
              ELSE << >>

\* Faulty variant of Hovering for C26: entering also publishes the move.
HoveringEnterAndMove(was_hovered, is_hovered, position) ==
    IF "on_enter" \in handlers /\ is_hovered /\ ~was_hovered
    THEN IF "on_move" \in handlers /\ position # None
         THEN << OnEnter, OnMove(position) >>
         ELSE << OnEnter >>
    ELSE IF "on_move" \in handlers /\ is_hovered
         THEN IF position # None THEN << OnMove(position) >> ELSE << >>
         ELSE IF "on_exit" \in handlers /\ ~is_hovered /\ was_hovered
              THEN << OnExit >>
              ELSE << >>

\* The match on (on_enter, on_move, on_exit): the first arm whose pattern and
\* guard hold is the one taken.
Hovering(was_hovered, is_hovered, position) ==
    IF "on_enter" \in handlers /\ is_hovered /\ ~was_hovered
    THEN << OnEnter >>
    ELSE IF "on_move" \in handlers /\ is_hovered
         THEN IF position # None THEN << OnMove(position) >> ELSE << >>
         ELSE IF "on_exit" \in handlers /\ ~is_hovered /\ was_hovered
              THEN << OnExit >>
              ELSE << >>

\* Faulty variant of Tracked for C20: the hover is evaluated on every update.
TrackedAlways(position, bounds) ==
    [state |-> [state EXCEPT !.is_hovered = IsOver(position, bounds),
                             !.cursor_position = position,
                             !.bounds = bounds],
     shell |-> Hovering(state.is_hovered, IsOver(position, bounds),
                        PositionIn(position, bounds))]

\* Faulty variant of Tracked for C37: the stored hover flag is not read, every
\* update is taken for the first.
TrackedForgetsHover(position, bounds) ==
    IF state.cursor_position # position \/ state.bounds # bounds
    THEN [state |-> [state EXCEPT !.is_hovered = IsOver(position, bounds),
                                  !.cursor_position = position,
                                  !.bounds = bounds],
          shell |-> Hovering(FALSE, IsOver(position, bounds),
                             PositionIn(position, bounds))]
    ELSE [state |-> state, shell |-> << >>]

\* The hover block of update: entered only when the cursor position or the
\* bounds differ from the stored ones.
Tracked(position, bounds) ==
    IF state.cursor_position # position \/ state.bounds # bounds
    THEN [state |-> [state EXCEPT !.is_hovered = IsOver(position, bounds),
                                  !.cursor_position = position,
                                  !.bounds = bounds],
          shell |-> Hovering(state.is_hovered, IsOver(position, bounds),
                             PositionIn(position, bounds))]
    ELSE [state |-> state, shell |-> << >>]

IsLeftPress(e) ==
    \/ e.kind = "ButtonPressed" /\ e.button = "Left"
    \/ e.kind = "FingerPressed"

\* Faulty variant of LeftPressed for C21: the new click is not compared with
\* the previous one.
LeftPressedNoPrevious(e, st) ==
    LET position == PositionIn(e.cursor, e.bounds)
        clicked == e.cursor # None /\ "on_double_click" \in handlers
        new_click == ClickNew(e.cursor, NoClick, e.quick)
    IN  [state |-> IF clicked THEN [st EXCEPT !.previous_click = new_click] ELSE st,
         shell |-> (IF "on_press" \in handlers /\ position # None
                    THEN << OnPress(position) >>
                    ELSE << >>)
                   \o (IF clicked /\ new_click.kind = "Double"
                       THEN << OnDoubleClick >>
                       ELSE << >>),
         status |-> IF "on_press" \in handlers \/ clicked
                    THEN "Captured"
                    ELSE "Ignored"]

\* Faulty variant of LeftPressed for C22: a double click replaces the press
\* message.
LeftPressedDoubleOnly(e, st) ==
    LET position == PositionIn(e.cursor, e.bounds)
        clicked == e.cursor # None /\ "on_double_click" \in handlers
        new_click == ClickNew(e.cursor, st.previous_click, e.quick)
    IN  [state |-> IF clicked THEN [st EXCEPT !.previous_click = new_click] ELSE st,
         shell |-> IF clicked /\ new_click.kind = "Double"
                   THEN << OnDoubleClick >>
                   ELSE IF "on_press" \in handlers /\ position # None
                        THEN << OnPress(position) >>
                        ELSE << >>,
         status |-> IF "on_press" \in handlers \/ clicked
                    THEN "Captured"
                    ELSE "Ignored"]

\* Faulty variant of LeftPressed for C23: a double click is not recorded.
LeftPressedKeepsSingle(e, st) ==
    LET position == PositionIn(e.cursor, e.bounds)
        clicked == e.cursor # None /\ "on_double_click" \in handlers
        new_click == ClickNew(e.cursor, st.previous_click, e.quick)
    IN  [state |-> IF clicked /\ new_click.kind = "Single"
                   THEN [st EXCEPT !.previous_click = new_click]
                   ELSE st,
         shell |-> (IF "on_press" \in handlers /\ position # None
                    THEN << OnPress(position) >>
                    ELSE << >>)
                   \o (IF clicked /\ new_click.kind = "Double"
                       THEN << OnDoubleClick >>
                       ELSE << >>),
         status |-> IF "on_press" \in handlers \/ clicked
                    THEN "Captured"
                    ELSE "Ignored"]

\* Faulty variant of LeftPressed for C30: every press consecutive to the
\* previous one publishes the double-click message.
LeftPressedOnRepeat(e, st) ==
    LET position == PositionIn(e.cursor, e.bounds)
        clicked == e.cursor # None /\ "on_double_click" \in handlers
        new_click == ClickNew(e.cursor, st.previous_click, e.quick)
    IN  [state |-> IF clicked THEN [st EXCEPT !.previous_click = new_click] ELSE st,
         shell |-> (IF "on_press" \in handlers /\ position # None
                    THEN << OnPress(position) >>
                    ELSE << >>)
                   \o (IF /\ clicked
                          /\ st.previous_click # NoClick
                          /\ st.previous_click.position = e.cursor
                          /\ e.quick
                       THEN << OnDoubleClick >>
                       ELSE << >>),
         status |-> IF "on_press" \in handlers \/ clicked
                    THEN "Captured"
                    ELSE "Ignored"]

\* The left press / finger press block of update, from State st.
LeftPressed(e, st) ==
    LET position == PositionIn(e.cursor, e.bounds)
        clicked == e.cursor # None /\ "on_double_click" \in handlers
        new_click == ClickNew(e.cursor, st.previous_click, e.quick)
    IN  [state |-> IF clicked THEN [st EXCEPT !.previous_click = new_click] ELSE st,
         shell |-> (IF "on_press" \in handlers /\ position # None
                    THEN << OnPress(position) >>
                    ELSE << >>)
                   \o (IF clicked /\ new_click.kind = "Double"
                       THEN << OnDoubleClick >>
                       ELSE << >>),
         status |-> IF "on_press" \in handlers \/ clicked
                    THEN "Captured"
                    ELSE "Ignored"]

\* The blocks of update after the left press: each publishes its message and
\* returns Captured for its own event when its handler is Some.
\* Faulty variant of Handled for C36: the message is published and the event
\* passed on.
HandledPassedOn(st, message) == [state |-> st, shell |-> << message >>, status |-> "Ignored"]

Handled(st, message) == [state |-> st, shell |-> << message >>, status |-> "Captured"]

OtherButtons(e, st) ==
    CASE /\ "on_release" \in handlers
         /\ \/ e.kind = "ButtonReleased" /\ e.button = "Left"
            \/ e.kind = "FingerLifted" -> Handled(st, OnRelease)
      [] /\ "on_right_press" \in handlers
         /\ e.kind = "ButtonPressed" /\ e.button = "Right" -> Handled(st, OnRightPress)
      [] /\ "on_right_release" \in handlers
         /\ e.kind = "ButtonReleased" /\ e.button = "Right" -> Handled(st, OnRightRelease)
      [] /\ "on_middle_press" \in handlers
         /\ e.kind = "ButtonPressed" /\ e.button = "Middle" -> Handled(st, OnMiddlePress)
      [] /\ "on_middle_release" \in handlers
         /\ e.kind = "ButtonReleased" /\ e.button = "Middle" -> Handled(st, OnMiddleRelease)
      [] /\ "on_scroll" \in handlers
         /\ e.kind = "WheelScrolled" -> Handled(st, OnScroll)
      [] OTHER -> [state |-> st, shell |-> << >>, status |-> "Ignored"]

\* Faulty variant of Update for C35: the button blocks run wherever the cursor
\* is.
UpdateAnywhere(e) ==
    LET t == Tracked(e.cursor, e.bounds)
        r == IF IsLeftPress(e)
             THEN LeftPressed(e, t.state)
             ELSE OtherButtons(e, t.state)
    IN  [state |-> r.state, shell |-> t.shell \o r.shell, status |-> r.status]

\* update(widget, tree, event, layout, cursor, shell).
Update(e) ==
    LET t == Tracked(e.cursor, e.bounds)
    IN  IF ~IsOver(e.cursor, e.bounds)
        THEN [state |-> t.state, shell |-> t.shell, status |-> "Ignored"]
        ELSE LET r == IF IsLeftPress(e)
                      THEN LeftPressed(e, t.state)
                      ELSE OtherButtons(e, t.state)
             IN  [state |-> r.state, shell |-> t.shell \o r.shell,
                  status |-> r.status]

\* Faulty variant of MouseAreaOnEvent for C34: the hover block runs before the
\* content is asked.
MouseAreaOnEventTracksFirst(e) ==
    IF e.content = "Captured"
    THEN LET t == Tracked(e.cursor, e.bounds)
         IN  [state |-> t.state, shell |-> t.shell, status |-> "Captured"]
    ELSE Update(e)

\* MouseArea::on_event: the content handles the event first, and update runs
\* only when the content did not capture it.
MouseAreaOnEvent(e) ==
    IF e.content = "Captured"
    THEN [state |-> state, shell |-> << >>, status |-> "Captured"]
    ELSE Update(e)

MouseDeliver(e) ==
    LET r == MouseAreaOnEvent(e)
    IN  /\ state' = r.state
        /\ shell' = r.shell
        /\ status' = r.status
        /\ event' = e
        /\ pre' = state
        /\ UNCHANGED << handlers, pick_list, query >>

\* The inputs of an event: cursor positions, layout bounds of width 2, what
\* the content returned, and the timing of a press after a recorded click.
Positions == {None} \cup (0 .. MaxCoord)

Bounds == {Rectangle(x, 2) : x \in 0 .. (MaxCoord - 1)}

Statuses == {"Ignored", "Captured"}

Buttons == {"Left", "Right", "Middle"}

Quick == IF state.previous_click = NoClick THEN {FALSE} ELSE BOOLEAN

MouseCursorMoved ==
    \E p \in Positions, b \in Bounds, content \in Statuses :
        MouseDeliver(MouseEvent("CursorMoved", "-", p, b, content, FALSE))

MouseButtonPressed ==
    \E button \in Buttons, p \in Positions, b \in Bounds, content \in Statuses,
       quick \in Quick :
        MouseDeliver(MouseEvent("ButtonPressed", button, p, b, content, quick))

MouseButtonReleased ==
    \E button \in Buttons, p \in Positions, b \in Bounds, content \in Statuses :
        MouseDeliver(MouseEvent("ButtonReleased", button, p, b, content, FALSE))

MouseFingerPressed ==
    \E p \in Positions, b \in Bounds, content \in Statuses, quick \in Quick :
        MouseDeliver(MouseEvent("FingerPressed", "-", p, b, content, quick))

MouseFingerLifted ==
    \E p \in Positions, b \in Bounds, content \in Statuses :
        MouseDeliver(MouseEvent("FingerLifted", "-", p, b, content, FALSE))

MouseWheelScrolled ==
    \E p \in Positions, b \in Bounds, content \in Statuses :
        MouseDeliver(MouseEvent("WheelScrolled", "-", p, b, content, FALSE))

\* ------------------------------------------------------------ specifications

Rank(v) == CHOOSE i \in 1 .. Len(ValueSeq) : ValueSeq[i] = v

\* Option values are opaque (T: PartialEq): lists are enumerated up to a
\* renaming of the values, each new value being the next of ValueSeq.
Canonical(s) ==
    \A i \in 1 .. Len(s) :
        \/ Rank(s[i]) = 1
        \/ \E j \in 1 .. (i - 1) : Rank(s[j]) + 1 >= Rank(s[i])

OptionLists(max) ==
    {s \in UNION {[1 .. n -> Values] : n \in 0 .. max} : Canonical(s)}

Masks(n) ==
    {[present |-> FALSE, mask |-> << >>]}
        \cup {[present |-> TRUE, mask |-> m] : m \in [1 .. n -> BOOLEAN]}

Init ==
    /\ options \in OptionLists(MaxOptions)
    /\ disabled \in Masks(Len(options))
    /\ selected \in Selections
    /\ on_open \in BOOLEAN
    /\ on_close \in BOOLEAN
    /\ on_option_hovered = FALSE
    /\ is_open = FALSE
    /\ hovered_option = None
    /\ keyboard_modifiers = FALSE
    /\ overlay = Overlay(FALSE)
    /\ menu = "Empty"
    /\ query = NoQuery
    /\ cursor = [place |-> "outside", y |-> 0]
    /\ handlers = {}
    /\ state = StateDefault
    /\ event = NoEvent
    /\ shell = << >>
    /\ status = "Ignored"
    /\ pre = [is_open |-> FALSE, hovered_option |-> None,
              keyboard_modifiers |-> FALSE]

Next ==
    \/ CursorMoved
    \/ ButtonPressed
    \/ FingerPressed
    \/ Scroll
    \/ Modifiers
    \/ View

Spec == Init /\ [][Next]_vars

\* Modifier-scroll selection on its own: the overlay stays closed (no press is
\* delivered), over longer option lists.
InitScroll ==
    /\ options \in OptionLists(MaxScrollOptions)
    /\ disabled \in Masks(Len(options))
    /\ selected \in Selections
    /\ on_open = FALSE
    /\ on_close = FALSE
    /\ on_option_hovered = FALSE
    /\ is_open = FALSE
    /\ hovered_option = None
    /\ keyboard_modifiers = FALSE
    /\ overlay = Overlay(FALSE)
    /\ menu = "Empty"
    /\ query = NoQuery
    /\ cursor = [place |-> "outside", y |-> 0]
    /\ handlers = {}
    /\ state = StateDefault
    /\ event = NoEvent
    /\ shell = << >>
    /\ status = "Ignored"
    /\ pre = [is_open |-> FALSE, hovered_option |-> None,
              keyboard_modifiers |-> FALSE]

NextScroll ==
    \/ CursorMoved
    \/ Scroll
    \/ Modifiers
    \/ View

SpecScroll == InitScroll /\ [][NextScroll]_vars

\* The overlay list with an option-hovered handler, owned as PickList owns it:
\* shown by a press over the bounds, closed by on_selected.
InitMenu ==
    /\ options \in OptionLists(MaxMenuOptions)
    /\ disabled \in Masks(Len(options))
    /\ selected \in Selections
    /\ on_open = FALSE
    /\ on_close = FALSE
    /\ on_option_hovered = TRUE
    /\ is_open = FALSE
    /\ hovered_option = None
    /\ keyboard_modifiers = FALSE
    /\ overlay = Overlay(FALSE)
    /\ menu = "Empty"
    /\ query = NoQuery
    /\ cursor = [place |-> "outside", y |-> 0]
    /\ handlers = {}
    /\ state = StateDefault
    /\ event = NoEvent
    /\ shell = << >>
    /\ status = "Ignored"
    /\ pre = [is_open |-> FALSE, hovered_option |-> None,
              keyboard_modifiers |-> FALSE]

NextMenu ==
    \/ CursorMoved
    \/ ButtonPressed
    \/ FingerPressed

SpecMenu == InitMenu /\ [][NextMenu]_vars

\* A MouseArea with hover, press and release handlers, on its own.
InitMouse ==
    /\ handlers \in SUBSET {"on_enter", "on_move", "on_exit", "on_press", "on_release"}
    /\ state = StateDefault
    /\ event = NoMouseEvent
    /\ shell = << >>
    /\ status = "Ignored"
    /\ pre = StateDefault
    /\ options = << >>
    /\ disabled = [present |-> FALSE, mask |-> << >>]
    /\ selected = NoSel
    /\ on_open = FALSE
    /\ on_close = FALSE
    /\ on_option_hovered = FALSE
    /\ is_open = FALSE
    /\ hovered_option = None
    /\ keyboard_modifiers = FALSE
    /\ overlay = Overlay(FALSE)
    /\ menu = "Empty"
    /\ query = NoQuery
    /\ cursor = [place |-> "outside", y |-> 0]

NextMouse ==
    \/ MouseCursorMoved
    \/ MouseButtonPressed
    \/ MouseButtonReleased

SpecMouse == InitMouse /\ [][NextMouse]_vars

\* A MouseArea that classifies clicks: press and release handlers with and
\* without a double-click handler.
InitClick ==
    /\ handlers \in {{"on_press", "on_release"},
                     {"on_press", "on_release", "on_double_click"}}
    /\ state = StateDefault
    /\ event = NoMouseEvent
    /\ shell = << >>
    /\ status = "Ignored"
    /\ pre = StateDefault
    /\ options = << >>
    /\ disabled = [present |-> FALSE, mask |-> << >>]
    /\ selected = NoSel
    /\ on_open = FALSE
    /\ on_close = FALSE
    /\ on_option_hovered = FALSE
    /\ is_open = FALSE
    /\ hovered_option = None
    /\ keyboard_modifiers = FALSE
    /\ overlay = Overlay(FALSE)
    /\ menu = "Empty"
    /\ query = NoQuery
    /\ cursor = [place |-> "outside", y |-> 0]

NextClick ==
    \/ MouseButtonPressed
    \/ MouseButtonReleased
    \/ MouseFingerPressed

SpecClick == InitClick /\ [][NextClick]_vars

\* The masks a caller can return that are shorter than a list of n options.
ShortMasks(n) ==
    {[present |-> TRUE, mask |-> m] :
         m \in UNION {[1 .. k -> BOOLEAN] : k \in 0 .. (n - 1)}}

\* A pick list whose disabled mask is shorter than its option list.
InitShort ==
    /\ options \in OptionLists(MaxOptions)
    /\ disabled \in ShortMasks(Len(options))
    /\ selected \in Selections
    /\ on_open \in BOOLEAN
    /\ on_close \in BOOLEAN
    /\ on_option_hovered = FALSE
    /\ is_open = FALSE
    /\ hovered_option = None
    /\ keyboard_modifiers = FALSE
    /\ overlay = Overlay(FALSE)
    /\ menu = "Empty"
    /\ query = NoQuery
    /\ cursor = [place |-> "outside", y |-> 0]
    /\ handlers = {}
    /\ state = StateDefault
    /\ event = NoEvent
    /\ shell = << >>
    /\ status = "Ignored"
    /\ pre = [is_open |-> FALSE, hovered_option |-> None,
              keyboard_modifiers |-> FALSE]

SpecShort == InitShort /\ [][Next]_vars

\* A pick list that receives its events in batches: the overlay is asked for
\* between batches only.
InitBatch ==
    /\ options \in OptionLists(MaxOptions)
    /\ disabled \in Masks(Len(options))
    /\ selected \in Selections
    /\ on_open = FALSE
    /\ on_close = FALSE
    /\ on_option_hovered = FALSE
    /\ is_open = FALSE
    /\ hovered_option = None
    /\ keyboard_modifiers = FALSE
    /\ overlay = Overlay(FALSE)
    /\ menu = "Empty"
    /\ query = NoQuery
    /\ cursor = [place |-> "outside", y |-> 0]
    /\ handlers = {}
    /\ state = StateDefault
    /\ event = NoEvent
    /\ shell = << >>
    /\ status = "Ignored"
    /\ pre = [is_open |-> FALSE, hovered_option |-> None,
              keyboard_modifiers |-> FALSE]

NextBatch ==
    \/ CursorMovedBatched
    \/ ButtonPressedBatched
    \/ FingerPressedBatched
    \/ Build

SpecBatch == InitBatch /\ [][NextBatch]_vars

\* Every handler a MouseArea can be given.
AllHandlers ==
    {"on_press", "on_release", "on_double_click", "on_right_press",
     "on_right_release", "on_middle_press", "on_middle_release", "on_scroll",
     "on_enter", "on_move", "on_exit"}

\* Either widget with every message it can publish configured: a pick list
\* (no MouseArea handlers) with on_open and on_close, or a MouseArea with all
\* its handlers.  The MouseArea is given the events its content did not
\* capture: a captured event never reaches update.
InitWidgets ==
    \/ /\ options \in OptionLists(MaxOptions)
       /\ disabled \in Masks(Len(options))
       /\ selected \in Selections
       /\ on_open = TRUE
       /\ on_close = TRUE
       /\ on_option_hovered = FALSE
       /\ is_open = FALSE
       /\ hovered_option = None
       /\ keyboard_modifiers = FALSE
       /\ overlay = Overlay(FALSE)
       /\ menu = "Empty"
       /\ query = NoQuery
       /\ cursor = [place |-> "outside", y |-> 0]
       /\ handlers = {}
       /\ state = StateDefault
       /\ event = NoEvent
       /\ shell = << >>
       /\ status = "Ignored"
       /\ pre = [is_open |-> FALSE, hovered_option |-> None,
                 keyboard_modifiers |-> FALSE]
    \/ /\ handlers = AllHandlers
       /\ state = StateDefault
       /\ event = NoMouseEvent
       /\ shell = << >>
       /\ status = "Ignored"
       /\ pre = StateDefault
       /\ options = << "A" >>
       /\ disabled = [present |-> FALSE, mask |-> << >>]
       /\ selected = NoSel
       /\ on_open = FALSE
       /\ on_close = FALSE
       /\ on_option_hovered = FALSE
       /\ is_open = FALSE
       /\ hovered_option = None
       /\ keyboard_modifiers = FALSE
       /\ overlay = Overlay(FALSE)
       /\ menu = "Empty"
       /\ query = NoQuery
       /\ cursor = [place |-> "outside", y |-> 0]

NextWidgets ==
    \/ handlers = {} /\ CursorMoved
    \/ handlers = {} /\ ButtonPressed
    \/ handlers = {} /\ FingerPressed
    \/ handlers = {} /\ Scroll
    \/ handlers = {} /\ Modifiers
    \/ handlers = {} /\ View
    \/ handlers # {} /\ MouseCursorMoved /\ event'.content = "Ignored"
    \/ handlers # {} /\ MouseButtonPressed /\ event'.content = "Ignored"
    \/ handlers # {} /\ MouseButtonReleased /\ event'.content = "Ignored"
    \/ handlers # {} /\ MouseFingerPressed /\ event'.content = "Ignored"
    \/ handlers # {} /\ MouseFingerLifted /\ event'.content = "Ignored"
    \/ handlers # {} /\ MouseWheelScrolled /\ event'.content = "Ignored"

SpecWidgets == InitWidgets /\ [][NextWidgets]_vars

\* A MouseArea with the handlers of one kind only: of the release, the other
\* buttons and the wheel, of the hover, of the press and of the double click.  It is given
\* the events its content did not capture.
InitCapture ==
    /\ handlers \in {AllHandlers \ {"on_enter", "on_move", "on_exit",
                                    "on_press", "on_double_click"},
                     {"on_enter", "on_move", "on_exit"},
                     {"on_press"},
                     {"on_double_click"}}
    /\ state = StateDefault
    /\ event = NoMouseEvent
    /\ shell = << >>
    /\ status = "Ignored"
    /\ pre = StateDefault
    /\ options = << "A" >>
    /\ disabled = [present |-> FALSE, mask |-> << >>]
    /\ selected = NoSel
    /\ on_open = FALSE
    /\ on_close = FALSE
    /\ on_option_hovered = FALSE
    /\ is_open = FALSE
    /\ hovered_option = None
    /\ keyboard_modifiers = FALSE
    /\ overlay = Overlay(FALSE)
    /\ menu = "Empty"
    /\ query = NoQuery
    /\ cursor = [place |-> "outside", y |-> 0]

NextCapture ==
    \/ MouseCursorMoved /\ event'.content = "Ignored"
    \/ MouseButtonPressed /\ event'.content = "Ignored"
    \/ MouseButtonReleased /\ event'.content = "Ignored"
    \/ MouseFingerPressed /\ event'.content = "Ignored"
    \/ MouseFingerLifted /\ event'.content = "Ignored"
    \/ MouseWheelScrolled /\ event'.content = "Ignored"

SpecCapture == InitCapture /\ [][NextCapture]_vars

\* The overlay list's row arithmetic on its own: a closed pick list whose
\* list functions are evaluated for every offset, row height and count.
InitQuery ==
    /\ options = << "A" >>
    /\ disabled = [present |-> FALSE, mask |-> << >>]
    /\ selected = NoSel
    /\ on_open = FALSE
    /\ on_close = FALSE
    /\ on_option_hovered = FALSE
    /\ is_open = FALSE
    /\ hovered_option = None
    /\ keyboard_modifiers = FALSE
    /\ overlay = Overlay(FALSE)
    /\ menu = "Empty"
    /\ cursor = [place |-> "outside", y |-> 0]
    /\ handlers = {}
    /\ state = StateDefault
    /\ event = NoEvent
    /\ shell = << >>
    /\ status = "Ignored"
    /\ pre = [is_open |-> FALSE, hovered_option |-> None,
              keyboard_modifiers |-> FALSE]
    /\ query = NoQuery

NextQuery ==
    \/ QueryOptionIndexAt
    \/ QueryDraw

SpecQuery == InitQuery /\ [][NextQuery]_vars

\* ------------------------------------------------------------- properties

Published(type) == {i \in 1 .. Len(shell) : shell[i].type = type}

Offered(v) == \E i \in 1 .. Len(options) : options[i] = v

\* Option i (0-based) is enabled under the mask in use.
Enabled(i) == ~disabled.present \/ ~disabled.mask[i + 1]

Distinct == \A i, j \in 1 .. Len(options) : options[i] = options[j] => i = j

\* The overlay row under the pointer.
Row == cursor.y \div OptionHeight

PressedClosed == IsPress(event) /\ ~pre.is_open /\ OverBounds(cursor)

PressedRow == IsPress(event) /\ pre.is_open /\ cursor.place = "list"

PressedOffList == IsPress(event) /\ pre.is_open /\ cursor.place # "list"

\* A wheel scroll that reached modifier-scroll selection.
ModifierScroll ==
    /\ event.kind = "WheelScrolled"
    /\ pre.keyboard_modifiers
    /\ OverBounds(cursor)
    /\ ~pre.is_open

\* C1: a press over the bounds while closed opens the overlay, hovers the
\* first option equal to the selection (none when there is no selection or it
\* is not offered), publishes on_open once when configured, and is Captured.
C1_PressOpens ==
    PressedClosed =>
        /\ is_open
        /\ IF selected # NoSel /\ Offered(selected)
           THEN /\ hovered_option \in 0 .. (Len(options) - 1)
                /\ options[hovered_option + 1] = selected
                /\ \A j \in 1 .. hovered_option : options[j] # selected
           ELSE hovered_option = None
        /\ shell = IF on_open THEN << OnOpen >> ELSE << >>
        /\ status = "Captured"

\* C1 witness: an open on a list that offers the selection twice.
C1_Witness ==
    /\ PressedClosed
    /\ is_open
    /\ on_open
    /\ shell = << OnOpen >>
    /\ hovered_option = 0
    /\ Len(options) = 2
    /\ options[2] = selected

\* C2: a left press on an enabled row of the overlay list publishes select
\* of exactly the option at that row, and the controller is closed afterwards.
C2_PressSelectsRow ==
    (PressedRow /\ event.kind = "ButtonPressed" /\ Enabled(Row)) =>
        /\ Cardinality(Published("select")) = 1
        /\ \A i \in Published("select") : shell[i] = Select(options[Row + 1])
        /\ ~is_open

\* C2 witness: the lower half of row 1 pressed, on_close configured.
C2_Witness ==
    /\ PressedRow
    /\ event.kind = "ButtonPressed"
    /\ Enabled(Row)
    /\ Row = 1
    /\ cursor.y = 2 * OptionHeight - 1
    /\ on_close
    /\ options[1] # options[2]
    /\ shell = << Select(options[2]) >>
    /\ ~is_open

\* C3: with on_close configured every Open -> Closed transition publishes
\* on_close, the close that accompanies a selection in the overlay included.
C3_EveryClosePublishesOnClose ==
    (event.kind # "none" /\ pre.is_open /\ ~is_open /\ on_close) =>
        Published("close") # {}

\* C4: a press on a disabled row of the overlay list is absorbed: nothing is
\* published, the overlay stays open, the hovered index is unchanged and the
\* event is Captured.
C4_DisabledRowAbsorbs ==
    (PressedRow /\ ~Enabled(Row)) =>
        /\ shell = << >>
        /\ is_open
        /\ hovered_option = pre.hovered_option
        /\ status = "Captured"

\* C4 witness: a finger press on a disabled row while another row is hovered.
C4_Witness ==
    /\ PressedRow
    /\ event.kind = "FingerPressed"
    /\ ~Enabled(Row)
    /\ pre.hovered_option # None
    /\ pre.hovered_option # Row
    /\ is_open
    /\ on_close

\* C5: in every open state a press that lands on no row of the overlay list
\* closes the controller and publishes on_close when configured.
C5_PressOffListCloses ==
    PressedOffList =>
        /\ ~is_open
        /\ on_close => shell = << OnClose >>

\* The enabled option nearest to index p in the scan direction, if any.
NearestEnabled(p, forward, t) ==
    /\ t \in 0 .. (Len(options) - 1)
    /\ Enabled(t)
    /\ IF forward
       THEN t > p /\ \A k \in (p + 1) .. (t - 1) : ~Enabled(k)
       ELSE t < p /\ \A k \in (t + 1) .. (p - 1) : ~Enabled(k)

\* The index of the selected value in a list of distinct values.
SelectedIndex == CHOOSE i \in 0 .. (Len(options) - 1) : options[i + 1] = selected

\* C6: with pairwise distinct options and the selection offered, a modifier
\* scroll with y<0 publishes exactly select of the nearest enabled option after
\* the selected one, and with y>0 of the nearest enabled option before it.
C6_ScrollFromSelection ==
    (ModifierScroll /\ Distinct /\ selected # NoSel /\ Offered(selected)
        /\ event.dy # 0) =>
        \A t \in 0 .. (Len(options) - 1) :
            NearestEnabled(SelectedIndex, event.dy < 0, t) =>
                shell = << Select(options[t + 1]) >>

\* C6 witness: A selected, B disabled, forward scroll selects C.
C6_Witness ==
    /\ ModifierScroll
    /\ options = << "A", "B", "C" >>
    /\ disabled.present
    /\ disabled.mask = << FALSE, TRUE, FALSE >>
    /\ selected = "A"
    /\ event.dy < 0
    /\ shell = << Select("C") >>

\* C7: for all option lists, repeated values included, the option published
\* by modifier-scroll selection is not a disabled option and is not equal to
\* the current selection.
C7_PublishedEnabledAndNew ==
    ModifierScroll =>
        \A m \in Published("select") :
            /\ shell[m].value # selected
            /\ \A i \in 0 .. (Len(options) - 1) :
                   options[i + 1] = shell[m].value => Enabled(i)

\* C8 as claimed: a selection that is not offered is treated as no selection,
\* so y<0 selects the first enabled option and y>0 the last.
C8_NotOfferedFallsBack ==
    (ModifierScroll /\ selected # NoSel /\ ~Offered(selected) /\ event.dy # 0) =>
        \A t \in 0 .. (Len(options) - 1) :
            NearestEnabled(IF event.dy < 0 THEN -1 ELSE Len(options),
                           event.dy < 0, t) =>
                shell = << Select(options[t + 1]) >>

\* C8 amended: when the selection is not offered, modifier-scroll selection
\* publishes nothing in either direction and the event is Captured.
C8_NotOfferedPublishesNothing ==
    (ModifierScroll /\ selected # NoSel /\ ~Offered(selected)) =>
        /\ shell = << >>
        /\ status = "Captured"

\* C8 witness: a forward scroll over enabled options with a selection that is
\* not offered.
C8_Witness ==
    /\ ModifierScroll
    /\ selected = "Z"
    /\ event.dy < 0
    /\ Len(options) >= 2
    /\ \E i \in 0 .. (Len(options) - 1) : Enabled(i)
    /\ shell = << >>
    /\ status = "Captured"

\* C9: with no selection, y<0 publishes select of the first enabled option
\* in list order, y>0 of the last, and nothing is published when every option
\* is disabled or the list is empty.
C9_ScrollFromNothing ==
    (ModifierScroll /\ selected = NoSel /\ event.dy # 0) =>
        /\ \A t \in 0 .. (Len(options) - 1) :
               NearestEnabled(IF event.dy < 0 THEN -1 ELSE Len(options),
                              event.dy < 0, t) =>
                   shell = << Select(options[t + 1]) >>
        /\ (\A i \in 0 .. (Len(options) - 1) : ~Enabled(i)) => shell = << >>

\* C9 witness: a backward scroll that passes over a disabled last option.
C9_Witness ==
    /\ ModifierScroll
    /\ selected = NoSel
    /\ event.dy > 0
    /\ Len(options) = 3
    /\ ~Enabled(2)
    /\ Enabled(1)
    /\ shell = << Select(options[2]) >>

\* The selected option a scan starts from: the first match in scan order.
Anchor(forward) ==
    CHOOSE i \in 0 .. (Len(options) - 1) :
        /\ options[i + 1] = selected
        /\ \A j \in 0 .. (Len(options) - 1) :
               options[j + 1] = selected => IF forward THEN i <= j ELSE i >= j

\* C10: modifier-scroll selection never wraps around: it publishes no select
\* when no enabled option lies after (y<0) or before (y>0) the selected option,
\* or when y is 0, and the event is still Captured.
C10_NoWrapAround ==
    (ModifierScroll /\ selected # NoSel /\ Offered(selected)) =>
        \/ event.dy # 0 /\
             \E t \in 0 .. (Len(options) - 1) :
                 NearestEnabled(Anchor(event.dy < 0), event.dy < 0, t)
        \/ shell = << >> /\ status = "Captured"

\* C11: a wheel scroll never changes is_open, the hovered index or the stored
\* modifiers; it publishes nothing but a select, and that only when the
\* overlay is closed, the command modifier is held and the cursor is over the
\* bounds; otherwise it is Ignored and publishes nothing.
C11_ScrollLeavesState ==
    event.kind = "WheelScrolled" =>
        /\ is_open = pre.is_open
        /\ hovered_option = pre.hovered_option
        /\ keyboard_modifiers = pre.keyboard_modifiers
        /\ \A i \in 1 .. Len(shell) : shell[i].type = "select" /\ ModifierScroll
        /\ ~ModifierScroll => (status = "Ignored" /\ shell = << >>)

\* C11 witness: a scroll over the bounds with the modifier held while the
\* overlay is open on a hovered option.
C11_Witness ==
    /\ event.kind = "WheelScrolled"
    /\ event.dy # 0
    /\ pre.is_open
    /\ is_open
    /\ pre.keyboard_modifiers
    /\ OverBounds(cursor)
    /\ hovered_option # None
    /\ selected # NoSel
    /\ Len(options) = 2
    /\ status = "Ignored"

\* C12: a modifier-changed event stores the notified flags and does nothing
\* else: is_open and the hovered index are unchanged, nothing is published and
\* the event is Ignored, open or closed.
C12_ModifiersStored ==
    event.kind = "ModifiersChanged" =>
        /\ keyboard_modifiers = event.command
        /\ is_open = pre.is_open
        /\ hovered_option = pre.hovered_option
        /\ shell = << >>
        /\ status = "Ignored"

\* C12 witness: the modifier is released while the overlay is open on a
\* hovered option.
C12_Witness ==
    /\ event.kind = "ModifiersChanged"
    /\ pre.keyboard_modifiers
    /\ ~event.command
    /\ ~keyboard_modifiers
    /\ is_open
    /\ hovered_option # None

\* A pointer move over a row of the shown overlay list.
MovedOverRow == event.kind = "CursorMoved" /\ pre.is_open /\ cursor.place = "list"

\* C13: with on_option_hovered configured, a pointer move publishes
\* hover-changed exactly when it is over a row of the list that is enabled and
\* is not the stored hovered index, and then exactly once, for the option at
\* that row; a move onto a disabled row publishes nothing.
C13_HoverChangedPublished ==
    (event.kind = "CursorMoved" /\ on_option_hovered) =>
        IF MovedOverRow /\ Enabled(Row) /\ pre.hovered_option # Row
        THEN shell = << Hover(options[Row + 1]) >>
        ELSE shell = << >>

\* C13 witness: rows 0 and 2 enabled, row 1 disabled, no selection; the pointer
\* arrives on row 2 while row 0 is the stored hover and hover-changed fires for
\* the option of row 2.
C13_Witness ==
    /\ MovedOverRow
    /\ on_option_hovered
    /\ selected = NoSel
    /\ options = << "A", "B", "C" >>
    /\ disabled.present
    /\ disabled.mask = << FALSE, TRUE, FALSE >>
    /\ pre.hovered_option = 0
    /\ Row = 2
    /\ hovered_option = 2
    /\ shell = << Hover("C") >>

\* C14 as claimed: after a pointer move onto a disabled row of the shown
\* overlay list the stored hovered index is none.
C14_DisabledRowUnsetsHover ==
    (MovedOverRow /\ ~Enabled(Row)) => hovered_option = None

\* C14 amended: a pointer move onto a disabled row of the shown overlay list
\* leaves the stored hovered index as it was, publishes nothing, keeps the
\* overlay open and is Captured.
C14_DisabledRowKeepsHover ==
    (MovedOverRow /\ ~Enabled(Row)) =>
        /\ hovered_option = pre.hovered_option
        /\ shell = << >>
        /\ is_open
        /\ status = "Captured"

\* C14 witness: the pointer moves onto disabled row 1 while row 0 is hovered.
C14_Witness ==
    /\ MovedOverRow
    /\ Row = 1
    /\ ~Enabled(Row)
    /\ pre.hovered_option = 0
    /\ hovered_option = 0

\* C15: with a fixed option list the stored hovered index, when there is one,
\* is smaller than the number of options in every reachable state.
C15_HoverWithinList ==
    hovered_option = None \/ hovered_option \in 0 .. (Len(options) - 1)

\* C15 witness: an open that hovers the last option of the list.
C15_Witness ==
    /\ PressedClosed
    /\ Len(options) = 2
    /\ hovered_option = Len(options) - 1
    /\ pre.hovered_option # hovered_option

\* C16 as claimed: in every Closed state the stored hovered index is none.
C16_ClosedHasNoHover == ~is_open => hovered_option = None

\* C16 amended: closing does not clear the hover: a close by a finger press on
\* an option leaves the pressed row hovered, and every other close leaves the
\* stored hovered index as it was.
C16_CloseKeepsHover ==
    (event.kind # "none" /\ pre.is_open /\ ~is_open) =>
        IF event.kind = "FingerPressed" /\ cursor.place = "list"
        THEN hovered_option = Row
        ELSE hovered_option = pre.hovered_option

\* C16 witness: a press outside the list closes the overlay while row 1 is
\* hovered.
C16_Witness ==
    /\ PressedOffList
    /\ ~is_open
    /\ pre.hovered_option = 1
    /\ hovered_option = 1

\* C17: a newly created state is Closed with no hovered index, and in every
\* state PickList::overlay has returned a menu iff is_open.
C17_OverlayIffOpen ==
    /\ ~is_open /\ hovered_option = None
    /\ []((overlay = "Some") <=> is_open)

\* C17 witness: a press has opened the overlay and the menu is returned.
C17_Witness ==
    /\ PressedClosed
    /\ is_open
    /\ overlay = "Some"

\* An update that evaluated the hover: the content did not capture the event
\* and the cursor position or the bounds differ from the stored ones.
Reevaluated ==
    /\ event.kind # "none"
    /\ event.content = "Ignored"
    /\ pre.cursor_position # event.cursor \/ pre.bounds # event.bounds

\* The cursor of the last event is inside the bounds it came with.
Inside == IsOver(event.cursor, event.bounds)

\* C18: on an update that evaluated the hover, enter is published iff it is
\* configured, the cursor is now inside the bounds and the stored hover flag
\* was false; exit is published iff it is configured, the cursor is now outside
\* and the stored flag was true.
C18_EnterExitOnTransition ==
    Reevaluated =>
        /\ Published("enter") # {} <=>
               ("on_enter" \in handlers /\ Inside /\ ~pre.is_hovered)
        /\ Published("exit") # {} <=>
               ("on_exit" \in handlers /\ ~Inside /\ pre.is_hovered)

\* C18 witness: the bounds move under a resting cursor and enter is published
\* although a move handler is configured too.
C18_Witness ==
    /\ Reevaluated
    /\ pre.cursor_position = event.cursor
    /\ pre.bounds.width > 0
    /\ ~pre.is_hovered
    /\ Inside
    /\ {"on_enter", "on_move", "on_exit"} \subseteq handlers
    /\ Published("enter") # {}
    /\ state.is_hovered

\* C19: with a move handler configured, every update that evaluated the hover
\* with the cursor inside the bounds publishes move with the bounds-local
\* position, the update on which the cursor enters included.
C19_MoveOnEveryInsideUpdate ==
    (Reevaluated /\ "on_move" \in handlers /\ Inside) =>
        \E i \in Published("move") :
            shell[i] = OnMove(event.cursor - event.bounds.x)

\* C20: an update with the stored cursor position and the stored bounds
\* publishes no enter, move or exit and leaves the stored hover flag, position
\* and bounds unchanged.
C20_SameInputsNoTransition ==
    (/\ event.kind # "none"
     /\ event.content = "Ignored"
     /\ pre.cursor_position = event.cursor
     /\ pre.bounds = event.bounds) =>
        /\ Published("enter") \cup Published("move") \cup Published("exit") = {}
        /\ state.is_hovered = pre.is_hovered
        /\ state.cursor_position = pre.cursor_position
        /\ state.bounds = pre.bounds

\* C20 witness: a second pointer event at the same position inside the same
\* bounds, with every hover handler configured.
C20_Witness ==
    /\ event.kind = "CursorMoved"
    /\ event.content = "Ignored"
    /\ pre.cursor_position = event.cursor
    /\ pre.bounds = event.bounds
    /\ Inside
    /\ state.is_hovered
    /\ {"on_enter", "on_move", "on_exit"} \subseteq handlers
    /\ shell = << >>

\* A left or finger press that update handled with the cursor inside the
\* bounds.
PressProcessed == IsLeftPress(event) /\ event.content = "Ignored" /\ Inside

\* The press is at the position of the recorded click and within its window.
Consecutive ==
    /\ pre.previous_click # NoClick
    /\ pre.previous_click.position = event.cursor
    /\ event.quick

DoublePublished == Published("double_click") # {}

\* C21: with a double-click handler, a left press with no click recorded
\* publishes no double-click; a press at the position of a recorded single
\* click and within its window publishes it; a press outside the window of the
\* recorded click is a single click again and publishes none.
C21_DoubleOnSecondPress ==
    (PressProcessed /\ event.kind = "ButtonPressed"
        /\ "on_double_click" \in handlers) =>
        /\ pre.previous_click = NoClick => ~DoublePublished
        /\ (Consecutive /\ pre.previous_click.kind = "Single") => DoublePublished
        /\ ~event.quick =>
               (~DoublePublished /\ state.previous_click.kind = "Single")

\* C21 witness: a third left press at the position of a double click, outside
\* its window.
C21_Witness ==
    /\ PressProcessed
    /\ event.kind = "ButtonPressed"
    /\ "on_double_click" \in handlers
    /\ pre.previous_click.kind = "Double"
    /\ pre.previous_click.position = event.cursor
    /\ ~event.quick
    /\ ~DoublePublished
    /\ state.previous_click.kind = "Single"

\* C22: with press, release and double-click handlers, every processed press
\* publishes the press message first, the press classified as double publishes
\* the double-click message after it on the same event, and a processed release
\* publishes the release message.
C22_DoubleKeepsPress ==
    (event.kind # "none" /\ event.content = "Ignored" /\ Inside
        /\ {"on_press", "on_release", "on_double_click"} \subseteq handlers) =>
        /\ IsLeftPress(event) =>
               shell = << OnPress(event.cursor - event.bounds.x) >>
                       \o (IF Consecutive /\ pre.previous_click.kind = "Single"
                           THEN << OnDoubleClick >>
                           ELSE << >>)
        /\ (event.kind = "ButtonReleased" /\ event.button = "Left") =>
               shell = << OnRelease >>

\* C22 witness: the second press of a double click publishes press and then
\* double-click.
C22_Witness ==
    /\ PressProcessed
    /\ event.kind = "ButtonPressed"
    /\ {"on_press", "on_release", "on_double_click"} \subseteq handlers
    /\ Consecutive
    /\ shell = << OnPress(event.cursor - event.bounds.x), OnDoubleClick >>
    /\ status = "Captured"

\* C23 as claimed: every processed left or finger press inside the bounds
\* leaves that press in the previous-click record.
C23_EveryPressRecorded ==
    PressProcessed =>
        /\ state.previous_click # NoClick
        /\ state.previous_click.position = event.cursor

\* C23 amended: with a double-click handler every processed left or finger
\* press inside the bounds is recorded, a double click as much as a single
\* one; without the handler the record is left as it was.
C23_PressRecordedWithHandler ==
    PressProcessed =>
        IF "on_double_click" \in handlers
        THEN /\ state.previous_click # NoClick
             /\ state.previous_click.position = event.cursor
             /\ state.previous_click.kind = "Double" <=> DoublePublished
        ELSE state.previous_click = pre.previous_click

\* C23 witness: a finger press elsewhere replaces the record of a double
\* click.
C23_Witness ==
    /\ PressProcessed
    /\ event.kind = "FingerPressed"
    /\ "on_double_click" \in handlers
    /\ pre.previous_click.kind = "Double"
    /\ pre.previous_click.position # event.cursor
    /\ state.previous_click = [kind |-> "Single", position |-> event.cursor]

\* C30: in a run of presses at one position, each within the window of the
\* one before, the double-click message is published exactly by the presses
\* that follow a single click, and the press after a double click is a single
\* click again.
C30_RapidPressesAlternate ==
    (PressProcessed /\ "on_double_click" \in handlers /\ Consecutive) =>
        /\ DoublePublished <=> pre.previous_click.kind = "Single"
        /\ state.previous_click.kind =
               IF pre.previous_click.kind = "Single" THEN "Double" ELSE "Single"

\* C30 witness: the third press of a run follows a double click and publishes
\* no double-click.
C30_Witness ==
    /\ PressProcessed
    /\ event.kind = "ButtonPressed"
    /\ "on_double_click" \in handlers
    /\ Consecutive
    /\ pre.previous_click.kind = "Double"
    /\ ~DoublePublished
    /\ state.previous_click.kind = "Single"

C25_ShortMaskCompletes ==
    (disabled.present /\ Len(disabled.mask) < Len(options)) =>
        status # "Panic"

\* The messages of the hover block and of the button and scroll blocks.
HoverMessages == {i \in 1 .. Len(shell) : shell[i].type \in {"enter", "move", "exit"}}

ButtonMessages ==
    {i \in 1 .. Len(shell) :
         shell[i].type \in {"press", "release", "right_press", "right_release",
                            "middle_press", "middle_release", "scroll"}}

\* C26 as claimed: every event publishes at most one message, for the pick
\* list with its overlay and for the MouseArea.
C26_AtMostOneMessage == Len(shell) <= 1

\* C26 amended: an event delivered to the pick list with its overlay
\* publishes at most one message.  An event delivered to a MouseArea publishes
\* at most one of enter, move and exit, then at most one press, release or
\* scroll message, then the double-click message when the press is a double
\* click: up to three messages.
C26_MessagesPerEvent ==
    IF handlers = {}
    THEN Len(shell) <= 1
    ELSE /\ Cardinality(HoverMessages) <= 1
         /\ Cardinality(ButtonMessages) <= 1
         /\ Cardinality(Published("double_click")) <= 1
         /\ Len(shell) <= 3
         /\ \A i \in HoverMessages : i = 1
         /\ \A i \in Published("double_click") : i = Len(shell)

\* C26 witness: a press on which the cursor enters and which is a double
\* click publishes enter, press and double-click.
C26_Witness ==
    /\ handlers = AllHandlers
    /\ IsLeftPress(event)
    /\ shell = << OnEnter, OnPress(event.cursor - event.bounds.x), OnDoubleClick >>

C28_ClosedListLeavesHover ==
    (/\ event.kind \in {"CursorMoved", "FingerPressed"}
     /\ overlay = "Some"
     /\ cursor.place = "list"
     /\ ~pre.is_open) =>
        hovered_option = pre.hovered_option

C31_ScrollTerminates == ModifierScroll => status # "Hang"

\* C32 as claimed: while Open the hovered index, if there is one, is of an
\* option the mask does not disable.
C32_HoveredNeverDisabled ==
    (is_open /\ hovered_option # None) => ~IsDisabled(hovered_option)

C34_ContentCapturedFirst ==
    (event.kind # "none" /\ event.content = "Captured") =>
        /\ shell = << >>
        /\ state = pre
        /\ status = "Captured"

\* C34 witness: the content captures a left press that would have moved the
\* stored cursor position and been a double click.
C34_Witness ==
    /\ event.kind = "ButtonPressed"
    /\ event.button = "Left"
    /\ event.content = "Captured"
    /\ "on_double_click" \in handlers
    /\ Inside
    /\ Consecutive
    /\ pre.previous_click.kind = "Single"
    /\ pre.cursor_position # event.cursor
    /\ state = pre
    /\ shell = << >>
    /\ status = "Captured"

\* C35: on an event the MouseArea handles with the cursor not over the
\* bounds, nothing but an exit message is published, the previous-click record
\* is left as it was and the event is Ignored.
C35_OutsideOnlyExit ==
    (handlers # {} /\ event.kind # "none" /\ event.content = "Ignored"
        /\ ~Inside) =>
        /\ status = "Ignored"
        /\ state.previous_click = pre.previous_click
        /\ shell \in {<< >>, << OnExit >>}

\* C35 witness: a left press within the window of a recorded click, on which
\* the cursor has left the bounds, publishes exit alone.
C35_Witness ==
    /\ handlers = AllHandlers
    /\ event.kind = "ButtonPressed"
    /\ event.button = "Left"
    /\ event.content = "Ignored"
    /\ event.quick
    /\ ~Inside
    /\ pre.is_hovered
    /\ pre.previous_click # NoClick
    /\ shell = << OnExit >>
    /\ status = "Ignored"

\* The handlers that answer for the kind of the last event.
MatchingHandlers ==
    CASE IsLeftPress(event) -> {"on_press", "on_double_click"}
      [] \/ event.kind = "ButtonReleased" /\ event.button = "Left"
         \/ event.kind = "FingerLifted" -> {"on_release"}
      [] event.kind = "ButtonPressed" /\ event.button = "Right" -> {"on_right_press"}
      [] event.kind = "ButtonReleased" /\ event.button = "Right" -> {"on_right_release"}
      [] event.kind = "ButtonPressed" /\ event.button = "Middle" -> {"on_middle_press"}
      [] event.kind = "ButtonReleased" /\ event.button = "Middle" -> {"on_middle_release"}
      [] event.kind = "WheelScrolled" -> {"on_scroll"}
      [] OTHER -> {}

\* C36: with the cursor over the bounds and the content not capturing, an
\* event is Captured iff a handler for its kind is configured, and Ignored
\* otherwise; a cursor move is Ignored whatever hover handlers there are.
C36_CapturedIffHandler ==
    (event.kind # "none" /\ event.content = "Ignored" /\ Inside) =>
        status = IF MatchingHandlers \cap handlers # {}
                 THEN "Captured"
                 ELSE "Ignored"

\* C36 witness: a first left press with only a double-click handler is
\* Captured and publishes nothing.
C36_Witness ==
    /\ handlers = {"on_double_click"}
    /\ event.kind = "ButtonPressed"
    /\ event.button = "Left"
    /\ event.content = "Ignored"
    /\ Inside
    /\ pre.previous_click = NoClick
    /\ shell = << >>
    /\ status = "Captured"

\* C37: with enter and exit handlers the published enter and exit messages
\* alternate, starting with enter.  The stored hover flag tells which came
\* last: it starts false, enter is published only by an event that takes it
\* from false to true, exit only by one that takes it from true to false, and
\* it never changes without its message, whether or not the content captures.
C37_EnterExitAlternate ==
    {"on_enter", "on_exit"} \subseteq handlers =>
        /\ event.kind = "none" => (~state.is_hovered /\ shell = << >>)
        /\ Published("enter") # {} => (~pre.is_hovered /\ state.is_hovered)
        /\ Published("exit") # {} => (pre.is_hovered /\ ~state.is_hovered)
        /\ (~pre.is_hovered /\ state.is_hovered) => Published("enter") # {}
        /\ (pre.is_hovered /\ ~state.is_hovered) => Published("exit") # {}
        /\ Cardinality(Published("enter") \cup Published("exit")) <= 1

\* C37 witness: exit is published by a press outside the bounds after the
\* cursor had entered, with a move handler configured as well.
C37_Witness ==
    /\ {"on_enter", "on_move", "on_exit"} \subseteq handlers
    /\ event.kind = "ButtonPressed"
    /\ event.content = "Ignored"
    /\ pre.is_hovered
    /\ ~state.is_hovered
    /\ shell = << OnExit >>

====
